---- MODULE Spec2Model ----
(***************************************************************************)
(* InstaFrame: the square-canvas compositor, the crop transform and the    *)
(* gallery orchestration of the App component.                             *)
(*                                                                         *)
(* Three variants of App are in the repository:                            *)
(*   src/unnamed/part_001  gallery of ImageState entries with cropping     *)
(*   src/App.tsx           gallery of formatted urls, no cropping          *)
(*   src/unnamed/part_000  a single image                                  *)
(* The state machine Spec is the component of part_001.  The geometry of   *)
(* the compositor and of getCroppedImg are operators, checked on bounded   *)
(* inputs under SpecCompose and SpecCrop.                                  *)
(*                                                                         *)
(* JavaScript numbers are modelled as exact rationals <<n, d>>, d > 0, in  *)
(* lowest terms, so that equality of numbers is equality of pairs.         *)
(***************************************************************************)
EXTENDS Integers, Sequences, FiniteSets, TLC

VARIABLES
    mode,               \* 'upload' | 'generate'
    images,             \* ImageState[]: the gallery
    prompt,             \* the prompt text
    isLoading,          \* loading flag
    error,              \* null or [message |-> string]
    currentImageIndex,  \* index of the entry scrolled to
    canvas,             \* the one <canvas> behind canvasRef
    croppingImage,      \* null or the ImageState open in the crop dialog
    crop,               \* undefined or the selection shown by ReactCrop
    completedCrop,      \* undefined or the PixelCrop of the last onComplete
    imgRef,             \* null or the <img> of the crop dialog
    tasks,              \* the async handler invocations in flight
    nextId,             \* number of ids drawn from randomUUID so far
    arg,                \* input of the pure function under SpecCompose / SpecCrop
    res                 \* its result

vars == <<mode, images, prompt, isLoading, error, currentImageIndex, canvas,
          croppingImage, crop, completedCrop, imgRef, tasks, nextId, arg, res>>

appVars == <<mode, images, prompt, isLoading, error, currentImageIndex, canvas,
             croppingImage, crop, completedCrop, imgRef, tasks, nextId>>

null == [null |-> TRUE]
undefined == [undefined |-> TRUE]

(***************************************************************************)
(* Rational arithmetic.                                                    *)
(***************************************************************************)
RECURSIVE GCD(_, _)
GCD(a, b) == IF b = 0 THEN a ELSE GCD(b, a % b)

Abs(n) == IF n < 0 THEN -n ELSE n

\* n/d in lowest terms with a positive denominator
Rat(n, d) ==
    LET s == IF d < 0 THEN -1 ELSE 1
        g == GCD(Abs(n), Abs(d))
    IN  <<(s * n) \div g, (s * d) \div g>>

Int2Rat(n) == <<n, 1>>
RAdd(a, b) == Rat(a[1] * b[2] + b[1] * a[2], a[2] * b[2])
RSub(a, b) == Rat(a[1] * b[2] - b[1] * a[2], a[2] * b[2])
RMul(a, b) == Rat(a[1] * b[1], a[2] * b[2])
RDiv(a, b) == Rat(a[1] * b[2], a[2] * b[1])
RLt(a, b) == a[1] * b[2] < b[1] * a[2]
RLe(a, b) == a[1] * b[2] <= b[1] * a[2]
\* Math.floor
Floor(a) == a[1] \div a[2]
IsInt(a) == a[2] = 1

(***************************************************************************)
(* The compositor's geometry.                                              *)
(***************************************************************************)
canvasSize == 1080
padding == Rat(9, 10)

\* A mutant of BorderRect: both axes are fitted to canvasSize * padding.
BorderRectStretched(w, h) ==
    LET drawWidth == RMul(Int2Rat(canvasSize), padding)
        drawHeight == RMul(Int2Rat(canvasSize), padding)
    IN  [x |-> RDiv(RSub(Int2Rat(canvasSize), drawWidth), Int2Rat(2)),
         y |-> RDiv(RSub(Int2Rat(canvasSize), drawHeight), Int2Rat(2)),
         drawWidth |-> drawWidth, drawHeight |-> drawHeight]

\* A mutant of BorderRect: the image is drawn at the canvas origin.
BorderRectUncentred(w, h) ==
    LET imageAspectRatio == RDiv(Int2Rat(w), Int2Rat(h))
        fit == RMul(Int2Rat(canvasSize), padding)
        drawWidth == IF w > h THEN fit ELSE RMul(fit, imageAspectRatio)
        drawHeight == IF w > h THEN RDiv(fit, imageAspectRatio) ELSE fit
    IN  [x |-> Int2Rat(0), y |-> Int2Rat(0),
         drawWidth |-> drawWidth, drawHeight |-> drawHeight]

\* A mutant of BorderRect: the padding is applied to the wrong axis.
BorderRectSwapped(w, h) ==
    LET imageAspectRatio == RDiv(Int2Rat(w), Int2Rat(h))
        fit == RMul(Int2Rat(canvasSize), padding)
        drawWidth == IF w < h THEN fit ELSE RMul(fit, imageAspectRatio)
        drawHeight == IF w < h THEN RDiv(fit, imageAspectRatio) ELSE fit
    IN  [x |-> RDiv(RSub(Int2Rat(canvasSize), drawWidth), Int2Rat(2)),
         y |-> RDiv(RSub(Int2Rat(canvasSize), drawHeight), Int2Rat(2)),
         drawWidth |-> drawWidth, drawHeight |-> drawHeight]

\* addBorderToImage (part_001): the rectangle the image is drawn into, for an
\* image of w x h pixels.
BorderRect(w, h) ==
    LET imageAspectRatio == RDiv(Int2Rat(w), Int2Rat(h))
        drawWidth == IF w > h
                     THEN RMul(Int2Rat(canvasSize), padding)
                     ELSE RMul(RMul(Int2Rat(canvasSize), padding), imageAspectRatio)
        drawHeight == IF w > h
                      THEN RDiv(RMul(Int2Rat(canvasSize), padding), imageAspectRatio)
                      ELSE RMul(Int2Rat(canvasSize), padding)
        x == RDiv(RSub(Int2Rat(canvasSize), drawWidth), Int2Rat(2))
        y == RDiv(RSub(Int2Rat(canvasSize), drawHeight), Int2Rat(2))
    IN  [x |-> x, y |-> y, drawWidth |-> drawWidth, drawHeight |-> drawHeight]

\* processImageDataUrl (App.tsx): the same rectangle, branching on the ratio.
ProcessRect(w, h) ==
    LET imageAspectRatio == RDiv(Int2Rat(w), Int2Rat(h))
        landscape == RLt(Int2Rat(1), imageAspectRatio)
        drawWidth == IF landscape
                     THEN RMul(Int2Rat(canvasSize), padding)
                     ELSE RMul(RMul(Int2Rat(canvasSize), padding), imageAspectRatio)
        drawHeight == IF landscape
                      THEN RDiv(RMul(Int2Rat(canvasSize), padding), imageAspectRatio)
                      ELSE RMul(Int2Rat(canvasSize), padding)
        x == RDiv(RSub(Int2Rat(canvasSize), drawWidth), Int2Rat(2))
        y == RDiv(RSub(Int2Rat(canvasSize), drawHeight), Int2Rat(2))
    IN  [x |-> x, y |-> y, drawWidth |-> drawWidth, drawHeight |-> drawHeight]

\* processAndSetImage (part_000): the single-image variant's rectangle.
ProcessAndSetRect(w, h) ==
    LET imageAspectRatio == RDiv(Int2Rat(w), Int2Rat(h))
        landscape == RLt(Int2Rat(1), imageAspectRatio)
        drawWidth == IF landscape
                     THEN RMul(Int2Rat(canvasSize), padding)
                     ELSE RMul(RMul(Int2Rat(canvasSize), padding), imageAspectRatio)
        drawHeight == IF landscape
                      THEN RDiv(RMul(Int2Rat(canvasSize), padding), imageAspectRatio)
                      ELSE RMul(Int2Rat(canvasSize), padding)
        x == RDiv(RSub(Int2Rat(canvasSize), drawWidth), Int2Rat(2))
        y == RDiv(RSub(Int2Rat(canvasSize), drawHeight), Int2Rat(2))
    IN  [x |-> x, y |-> y, drawWidth |-> drawWidth, drawHeight |-> drawHeight]

(***************************************************************************)
(* Numbers are IEEE 754 doubles.  A positive double is [bits, exp]: the    *)
(* Precision bits of its significand, the leading 1 first, and the         *)
(* exponent of that leading bit.  The size of the cropped canvas is the    *)
(* floor of a product of a quotient, each rounded to nearest: where the    *)
(* exact quotient is not a double the floor can fall one short of the      *)
(* floor of the exact product.                                             *)
(***************************************************************************)
\* the bits of a double's significand
Precision == 53

RECURSIVE Pow2(_)
Pow2(k) == IF k = 0 THEN 1 ELSE 2 * Pow2(k - 1)

\* the e with 2^e <= n / d < 2^(e + 1)
RECURSIVE Exponent(_, _)
Exponent(n, d) ==
    IF n >= 2 * d THEN Exponent(n, 2 * d) + 1
    ELSE IF n < d THEN Exponent(2 * n, d) - 1
    ELSE 0

\* the next k bits of r / b (0 <= r < b) and the remainder left, by long
\* division
RECURSIVE QuotientBits(_, _, _)
QuotientBits(r, b, k) ==
    IF k = 0 THEN << << >>, r >>
    ELSE IF k = 1 THEN LET bit == IF 2 * r >= b THEN 1 ELSE 0
                       IN  << <<bit>>, 2 * r - bit * b >>
    ELSE LET first == QuotientBits(r, b, k \div 2)
             rest == QuotientBits(first[2], b, k - k \div 2)
         IN  << first[1] \o rest[1], rest[2] >>

\* the bits of a natural number, none for 0
RECURSIVE Binary(_)
Binary(c) == IF c = 0 THEN << >> ELSE Binary(c \div 2) \o <<c % 2>>

RECURSIVE BitsToInt(_)
BitsToInt(bits) ==
    IF bits = << >> THEN 0
    ELSE 2 * BitsToInt(SubSeq(bits, 1, Len(bits) - 1)) + bits[Len(bits)]

\* the next significand up (bits holds a 0)
Successor(bits) ==
    LET last == CHOOSE j \in DOMAIN bits :
                    bits[j] = 0 /\ \A i \in DOMAIN bits : i > j => bits[i] = 1
    IN  SubSeq(bits, 1, last - 1) \o <<1>>
            \o SubSeq(<< >> \o [i \in DOMAIN bits |-> 0], last + 1, Len(bits))

\* round-to-nearest, ties-to-even, of the number 1.bits[2]bits[3]... * 2^exp
\* to Precision bits; sticky says that non-zero bits follow the ones given
RoundToNearest(bits, exp, sticky) ==
    LET head == SubSeq(bits, 1, Precision)
        tail == SubSeq(bits, Precision + 1, Len(bits))
        half == Len(tail) > 0 /\ tail[1] = 1
        more == sticky \/ \E i \in 2..Len(tail) : tail[i] = 1
        up == half /\ (more \/ head[Precision] = 1)
    IN  IF ~up THEN [bits |-> head, exp |-> exp]
        ELSE IF \A i \in 1..Precision : head[i] = 1
        THEN [bits |-> <<1>> \o SubSeq(<< >> \o [i \in 1..Precision |-> 0], 2, Precision),
              exp |-> exp + 1]
        ELSE [bits |-> Successor(head), exp |-> exp]

\* n / d for positive integers n and d
DoubleDiv(n, d) ==
    LET e == Exponent(n, d)
        a == IF e < 0 THEN n * Pow2(-e) ELSE n
        b == IF e > 0 THEN d * Pow2(e) ELSE d
        q == QuotientBits(a - b, b, Precision)
    IN  RoundToNearest(<<1>> \o q[1], e, q[2] # 0)

Reverse(s) == [i \in 1..Len(s) |-> s[Len(s) + 1 - i]]

\* the bits of low * k + carry, lowest bit first, for as many bits as low
\* has, and the carry out of them
RECURSIVE Times(_, _, _)
Times(low, k, carry) ==
    IF Len(low) = 1
    THEN LET t == low[1] * k + carry IN << <<t % 2>>, t \div 2 >>
    ELSE LET m == Len(low) \div 2
             first == Times(SubSeq(low, 1, m), k, carry)
             rest == Times(SubSeq(low, m + 1, Len(low)), k, first[2])
         IN  << first[1] \o rest[1], rest[2] >>

\* k * x for a positive integer k
DoubleTimes(k, x) ==
    LET t == Times(Reverse(x.bits), k, 0)
        product == Binary(t[2]) \o Reverse(t[1])
    IN  RoundToNearest(product, x.exp + Len(product) - Precision, FALSE)

\* Math.floor(x)
DoubleFloor(x) ==
    IF x.exp < 0 THEN 0 ELSE BitsToInt(SubSeq(x.bits, 1, x.exp + 1))

\* Math.floor(w * (n / d)) for a length w >= 0 of the selection, a rational
\* whose denominator is a power of two (multiplying by one is exact), and
\* positive integers n and d.  A quotient that is an integer is a double, and
\* so is its product with w: nothing is rounded then.
FloorOfScaled(w, n, d) ==
    IF w[1] = 0 THEN 0
    ELSE IF n % d = 0 THEN Floor(RMul(w, Int2Rat(n \div d)))
    ELSE LET x == DoubleTimes(w[1], DoubleDiv(n, d))
         IN  DoubleFloor([x EXCEPT !.exp = x.exp - Exponent(w[2], 1)])

(***************************************************************************)
(* The crop transform.                                                     *)
(***************************************************************************)
\* A mutant of GetCroppedImg: the crop is read in displayed coordinates,
\* without the scale correction.
GetCroppedImgUnscaled(image, pixelCrop) ==
    [canvas |-> [width |-> Floor(pixelCrop.width), height |-> Floor(pixelCrop.height)],
     sx |-> pixelCrop.x, sy |-> pixelCrop.y,
     sWidth |-> pixelCrop.width, sHeight |-> pixelCrop.height,
     dx |-> Int2Rat(0), dy |-> Int2Rat(0),
     dWidth |-> Int2Rat(Floor(pixelCrop.width)),
     dHeight |-> Int2Rat(Floor(pixelCrop.height))]

\* getCroppedImg(image, crop): the size given to the new canvas and the nine
\* arguments of ctx.drawImage.  image is the <img> of the dialog
\* (naturalWidth x naturalHeight shown at width x height), pixelCrop the
\* PixelCrop, its fields rationals.  The canvas takes the floor as the
\* doubles give it; the arguments of drawImage are kept exact.
GetCroppedImg(image, pixelCrop) ==
    LET scaleX == RDiv(Int2Rat(image.naturalWidth), Int2Rat(image.width))
        scaleY == RDiv(Int2Rat(image.naturalHeight), Int2Rat(image.height))
        cw == FloorOfScaled(pixelCrop.width, image.naturalWidth, image.width)
        ch == FloorOfScaled(pixelCrop.height, image.naturalHeight, image.height)
    IN  [canvas |-> [width |-> cw, height |-> ch],
         sx |-> RMul(pixelCrop.x, scaleX), sy |-> RMul(pixelCrop.y, scaleY),
         sWidth |-> RMul(pixelCrop.width, scaleX),
         sHeight |-> RMul(pixelCrop.height, scaleY),
         dx |-> Int2Rat(0), dy |-> Int2Rat(0),
         dWidth |-> Int2Rat(cw), dHeight |-> Int2Rat(ch)]

\* The CropRegion invariant of the selection: inside the displayed image.
InBounds(image, pixelCrop) ==
    /\ RLe(Int2Rat(0), pixelCrop.x)
    /\ RLe(Int2Rat(0), pixelCrop.y)
    /\ RLe(RAdd(pixelCrop.x, pixelCrop.width), Int2Rat(image.width))
    /\ RLe(RAdd(pixelCrop.y, pixelCrop.height), Int2Rat(image.height))

(***************************************************************************)
(* Values of the App component (part_001).                                 *)
(*                                                                         *)
(* A data URL is [width, height, px]: the size of the bitmap it decodes to *)
(* and what it shows.  A URL that does not decode (a corrupt file, or the  *)
(* "data:," of a canvas with no pixels) has width = 0 or height = 0.       *)
(***************************************************************************)
MaxTasks == 1       \* handler invocations in flight at once
MaxBatch == 3       \* files of one upload
MaxImages == 2      \* ids drawn from randomUUID in one behaviour
MaxCropSide == 2    \* width and height of the bitmaps getCroppedImg makes

Modes == {"upload", "generate"}
DefaultPrompt == "A cute baby sea otter floating on its back"
Prompts == {DefaultPrompt, ""}

\* The files a user can select: two images, a corrupt image, an image the
\* FileReader fails on, and a file that is no image.
Files ==
    { [name |-> "wide.png",    type |-> <<"image", "png">>, reads |-> TRUE,  width |-> 2, height |-> 1],
      [name |-> "square.png",  type |-> <<"image", "png">>, reads |-> TRUE,  width |-> 2, height |-> 2],
      [name |-> "corrupt.png", type |-> <<"image", "png">>, reads |-> TRUE,  width |-> 0, height |-> 0],
      [name |-> "locked.png",  type |-> <<"image", "png">>, reads |-> FALSE, width |-> 2, height |-> 2],
      [name |-> "notes.txt",   type |-> <<"text", "plain">>, reads |-> TRUE,  width |-> 0, height |-> 0] }

\* What generateImage resolves to: an opaque image of the remote service.
GeneratedUrls == { [width |-> 1, height |-> 2, px |-> "generated"] }

FileLists == UNION { [1..n -> Files] : n \in 1..MaxBatch }

\* file.type.startsWith('image/'): a MIME type is <<type, subtype>>
IsImageType(file) == file.type[1] = "image"

\* reader.readAsDataURL(file), when it succeeds
DataUrl(file) == [width |-> file.width, height |-> file.height, px |-> file.name]

\* whether new Image() fires onload (and not onerror) for the URL
Decodes(url) == url.width > 0 /\ url.height > 0

\* the handler invocations that can be in flight at once
Slots == DOMAIN tasks
Idle == [kind |-> "idle"]
\* a <canvas> without width and height attributes
BlankCanvas == [width |-> 300, height |-> 150]

IdsOf(imgs) == { imgs[i].id : i \in DOMAIN imgs }

Message(m) == [message |-> m]

FreeSlots == { t \in Slots : tasks[t] = Idle }
NewSlot == CHOOSE t \in FreeSlots : \A u \in FreeSlots : t <= u

(***************************************************************************)
(* What the render function offers the user.                               *)
(***************************************************************************)
\* <ImageUploader> is rendered
UploaderShown == Len(images) = 0 /\ mode = "upload"
\* <ImageGenerator> is rendered
GeneratorShown == Len(images) = 0 /\ mode = "generate"
\* its button is not disabled
GenerateEnabled == GeneratorShown /\ ~isLoading /\ prompt # ""
\* Start Over is not disabled
ClearEnabled == Len(images) > 0
\* <ImagePreview> shows the entries, each with its Crop button
CropButtonsShown == Len(images) > 0 /\ error = null
\* the crop dialog is rendered
DialogShown == croppingImage # null

(***************************************************************************)
(* addBorderToImage: the onload handler draws on the shared canvas and     *)
(* resolves with its toDataURL, all in one task of the event loop.         *)
(***************************************************************************)
\* A mutant of AddBorderCanvas: the canvas is not resized before drawing.
AddBorderCanvasNoResize(cv, url) == cv

\* the canvas after the onload handler ran for the image decoded from url:
\* canvas.width = canvasSize; canvas.height = canvasSize.  Setting the size
\* resets the bitmap and fillRect covers all of it, so nothing drawn before
\* is left, and the state the canvas carries between tasks is its size.
AddBorderCanvas(cv, url) == [width |-> canvasSize, height |-> canvasSize]

\* A mutant of Drawn: the canvas is read before the image is drawn on it and
\* shows the white background only.
DrawnBackgroundOnly(url) == [src |-> null, rect |-> BorderRect(url.width, url.height)]

\* what fillRect and drawImage leave on the canvas
Drawn(url) == [src |-> url, rect |-> BorderRect(url.width, url.height)]

\* canvas.toDataURL('image/png') of the canvas cv showing px
ToDataURL(cv, px) == [width |-> cv.width, height |-> cv.height, px |-> px]

ImageLoadError == Message("The image file could not be loaded.")

(***************************************************************************)
(* handleFiles and processAndAddImages.                                    *)
(*                                                                         *)
(* A task in "read" awaits Promise.all of the FileReaders; a task in       *)
(* "compose" awaits Promise.all of the addBorderToImage promises: out[i]   *)
(* is undefined while image i is loading, the new ImageState once its      *)
(* onload ran, and [failed |-> TRUE] once its onerror ran.  rejected says  *)
(* that Promise.all has rejected and the handler has returned; the images  *)
(* still loading then run their onload all the same.                       *)
(***************************************************************************)
Pending(out) == { i \in DOMAIN out : out[i] = undefined }

ComposeTask(kind, urls, idx) ==
    [kind |-> kind, pc |-> "compose", urls |-> urls,
     out |-> [i \in DOMAIN urls |-> undefined], rejected |-> FALSE, idx |-> idx]

\* A mutant of HandleFiles: a selection with a file that is no image is
\* turned down as a whole.
HandleFilesAllOrNothing(files) ==
    /\ UploaderShown
    /\ ~DialogShown         \* the dialog's overlay covers the label and takes the drop
    /\ Len(files) > 0
    /\ FreeSlots # {}
    /\ nextId + Len(files) <= MaxImages + 1
    /\ images' = << >>
    /\ currentImageIndex' = 0
    /\ IF \E k \in DOMAIN files : ~IsImageType(files[k])
       THEN /\ error' = Message("No valid image files selected.")
            /\ isLoading' = FALSE
            /\ tasks' = tasks
       ELSE /\ error' = null
            /\ isLoading' = TRUE
            /\ tasks' = [tasks EXCEPT ![NewSlot] =
                   [kind |-> "upload", pc |-> "read", files |-> files]]
    /\ UNCHANGED <<mode, prompt, canvas, croppingImage, crop, completedCrop,
                   imgRef, nextId, arg, res>>

HandleFiles(files) ==
    /\ UploaderShown
    /\ ~DialogShown         \* the dialog's overlay covers the label and takes the drop
    /\ Len(files) > 0
    /\ FreeSlots # {}
    /\ LET imageFiles == SelectSeq(files, IsImageType)
       IN  /\ nextId + Len(imageFiles) <= MaxImages
           /\ images' = << >>
           /\ currentImageIndex' = 0
           /\ IF Len(imageFiles) = 0
              THEN /\ error' = Message("No valid image files selected.")
                   /\ isLoading' = FALSE
                   /\ tasks' = tasks
              ELSE /\ error' = null
                   /\ isLoading' = TRUE
                   /\ tasks' = [tasks EXCEPT ![NewSlot] =
                          [kind |-> "upload", pc |-> "read", files |-> imageFiles]]
    /\ UNCHANGED <<mode, prompt, canvas, croppingImage, crop, completedCrop,
                   imgRef, nextId, arg, res>>

\* the FileReaders of the batch have finished
ReadDone(t) ==
    /\ tasks[t].kind = "upload"
    /\ tasks[t].pc = "read"
    /\ LET files == tasks[t].files
       IN  IF \A i \in DOMAIN files : files[i].reads
           THEN /\ tasks' = [tasks EXCEPT ![t] =
                       ComposeTask("upload", [i \in DOMAIN files |-> DataUrl(files[i])], 0)]
                /\ UNCHANGED <<error, isLoading>>
           ELSE /\ error' = Message("Failed to read the selected file.")
                /\ isLoading' = FALSE
                /\ tasks' = [tasks EXCEPT ![t] = Idle]
    /\ UNCHANGED <<mode, images, prompt, currentImageIndex, canvas, croppingImage,
                   crop, completedCrop, imgRef, nextId, arg, res>>

\* A mutant of AppendImages: the new entries replace the gallery.
AppendImagesReplacing(prev, newImages) == newImages

\* setImages(prev => [...prev, ...newImages])
AppendImages(prev, newImages) == prev \o newImages

\* A mutant of ImageLoad: the batch waits for all its images (allSettled)
\* and adds those that were composed.
ImageLoadSettled(t, i) ==
    /\ tasks[t].kind \in {"upload", "generate"}
    /\ tasks[t].pc = "compose"
    /\ i \in Pending(tasks[t].out)
    /\ LET task == tasks[t]
           url == task.urls[i]
           ok == Decodes(url)
           cv == AddBorderCanvas(canvas, url)
           entry == [id |-> nextId + 1, originalSrc |-> url, formattedSrc |-> ToDataURL(cv, Drawn(url))]
           out == [task.out EXCEPT ![i] = IF ok THEN entry ELSE [failed |-> TRUE]]
           returns == Pending(out) = {}
           failed(o) == o = [failed |-> TRUE]
           composed(o) == ~failed(o)
       IN  /\ canvas' = IF ok THEN cv ELSE canvas
           /\ nextId' = IF ok THEN nextId + 1 ELSE nextId
           /\ images' = IF returns THEN AppendImages(images, SelectSeq(out, composed)) ELSE images
           /\ error' = IF returns /\ \E k \in DOMAIN out : failed(out[k])
                       THEN ImageLoadError ELSE error
           /\ currentImageIndex' = IF returns /\ task.kind = "generate"
                                   THEN task.idx ELSE currentImageIndex
           /\ isLoading' = IF returns THEN FALSE ELSE isLoading
           /\ tasks' = [tasks EXCEPT ![t] =
                  IF returns THEN Idle ELSE [task EXCEPT !.out = out]]
    /\ UNCHANGED <<mode, prompt, croppingImage, crop, completedCrop, imgRef, arg, res>>

\* the image of urls[i] has loaded or failed to: onload / onerror of
\* addBorderToImage, and the continuations of processAndAddImages, handleFiles
\* and handleGenerate that run when that settles Promise.all
ImageLoad(t, i) ==
    /\ tasks[t].kind \in {"upload", "generate"}
    /\ tasks[t].pc = "compose"
    /\ i \in Pending(tasks[t].out)
    /\ LET task == tasks[t]
           url == task.urls[i]
           ok == Decodes(url)
           cv == AddBorderCanvas(canvas, url)
           entry == [id |-> nextId + 1, originalSrc |-> url, formattedSrc |-> ToDataURL(cv, Drawn(url))]
           out == [task.out EXCEPT ![i] = IF ok THEN entry ELSE [failed |-> TRUE]]
           resolves == ok /\ ~task.rejected /\ Pending(out) = {}
           rejects == ~ok /\ ~task.rejected
           returns == resolves \/ rejects
       IN  /\ canvas' = IF ok THEN cv ELSE canvas
           /\ nextId' = IF ok THEN nextId + 1 ELSE nextId
           /\ images' = IF resolves THEN AppendImages(images, out) ELSE images
           /\ error' = IF rejects THEN ImageLoadError ELSE error
           /\ currentImageIndex' = IF returns /\ task.kind = "generate"
                                   THEN task.idx ELSE currentImageIndex
           /\ isLoading' = IF returns THEN FALSE ELSE isLoading
           /\ tasks' = [tasks EXCEPT ![t] =
                  IF Pending(out) = {} THEN Idle
                  ELSE [task EXCEPT !.out = out, !.rejected = task.rejected \/ rejects]]
    /\ UNCHANGED <<mode, prompt, croppingImage, crop, completedCrop, imgRef, arg, res>>

(***************************************************************************)
(* handleGenerate.                                                         *)
(***************************************************************************)
GenerationFailures == { Message("The generation service failed.") }

HandleGenerate ==
    /\ GenerateEnabled
    /\ FreeSlots # {}
    /\ nextId + 1 <= MaxImages
    /\ isLoading' = TRUE
    /\ error' = null
    /\ tasks' = [tasks EXCEPT ![NewSlot] =
           [kind |-> "generate", pc |-> "gen", idx |-> Len(images)]]
    /\ UNCHANGED <<mode, images, prompt, currentImageIndex, canvas, croppingImage,
                   crop, completedCrop, imgRef, nextId, arg, res>>

\* generateImage(prompt, aspectRatio) has resolved
GenerateResolved(t) ==
    /\ tasks[t].kind = "generate"
    /\ tasks[t].pc = "gen"
    /\ \E url \in GeneratedUrls :
           tasks' = [tasks EXCEPT ![t] = ComposeTask("generate", <<url>>, tasks[t].idx)]
    /\ UNCHANGED <<mode, images, prompt, isLoading, error, currentImageIndex, canvas,
                   croppingImage, crop, completedCrop, imgRef, nextId, arg, res>>

\* A mutant of GenerateRejected: the failure's message is replaced by the
\* handler's fallback text.
GenerateRejectedUnknown(t) ==
    /\ tasks[t].kind = "generate"
    /\ tasks[t].pc = "gen"
    /\ error' = Message("An unknown error during generation.")
    /\ isLoading' = FALSE
    /\ tasks' = [tasks EXCEPT ![t] = Idle]
    /\ UNCHANGED <<mode, images, prompt, currentImageIndex, canvas, croppingImage,
                   crop, completedCrop, imgRef, nextId, arg, res>>

\* generateImage(prompt, aspectRatio) has rejected with an Error: the catch
\* sets its message, finally ends loading
GenerateRejected(t) ==
    /\ tasks[t].kind = "generate"
    /\ tasks[t].pc = "gen"
    /\ \E e \in GenerationFailures : error' = e
    /\ isLoading' = FALSE
    /\ tasks' = [tasks EXCEPT ![t] = Idle]
    /\ UNCHANGED <<mode, images, prompt, currentImageIndex, canvas, croppingImage,
                   crop, completedCrop, imgRef, nextId, arg, res>>

(***************************************************************************)
(* handleClear, handleModeChange, the prompt.                              *)
(***************************************************************************)
\* A mutant of HandleClear: the prompt is left as the user typed it.
HandleClearKeepsPrompt ==
    /\ images' = << >>
    /\ error' = null
    /\ isLoading' = FALSE
    /\ currentImageIndex' = 0
    /\ UNCHANGED <<prompt, canvas, croppingImage, crop, completedCrop, imgRef, tasks,
                   nextId, arg, res>>

\* handleClear; it leaves the crop dialog's state and the handlers in flight alone
HandleClear ==
    /\ images' = << >>
    /\ error' = null
    /\ isLoading' = FALSE
    /\ currentImageIndex' = 0
    /\ prompt' = DefaultPrompt
    /\ UNCHANGED <<canvas, croppingImage, crop, completedCrop, imgRef, tasks, nextId,
                   arg, res>>

\* the Start Over button
StartOver ==
    /\ ClearEnabled
    /\ HandleClear
    /\ UNCHANGED mode

HandleModeChange(newMode) ==
    /\ IF mode # newMode
       THEN HandleClear
       ELSE UNCHANGED <<images, error, isLoading, currentImageIndex, prompt, canvas,
                        croppingImage, crop, completedCrop, imgRef, tasks, nextId,
                        arg, res>>
    /\ mode' = newMode

\* the textarea's onChange
SetPrompt(p) ==
    /\ GeneratorShown
    /\ prompt' = p
    /\ UNCHANGED <<mode, images, isLoading, error, currentImageIndex, canvas,
                   croppingImage, crop, completedCrop, imgRef, tasks, nextId, arg, res>>

(***************************************************************************)
(* The crop dialog.                                                        *)
(*                                                                         *)
(* imgRef is the dialog's <img>: the bitmap of croppingImage.originalSrc   *)
(* (naturalWidth x naturalHeight) laid out at width x height, which the    *)
(* viewport decides.  The <img> is taken to have loaded when the dialog    *)
(* renders: its source is a data URL that decoded before.                  *)
(***************************************************************************)
\* the sizes the <img> can be laid out at: full size, or half of it
DisplaySizes(url) ==
    { [width |-> url.width, height |-> url.height] } \cup
    { [width |-> url.width \div 2, height |-> url.height \div 2] :
          k \in { n \in {1} : url.width % 2 = 0 /\ url.height % 2 = 0 } }

\* onImageLoad: centerCrop(makeAspectCrop({unit: '%', width: 90}, width / height, ...))
CenteredCrop == [unit |-> "%", x |-> Int2Rat(5), y |-> Int2Rat(5),
                 width |-> Int2Rat(90), height |-> Int2Rat(90)]

\* the percent crop ReactCrop hands to onChange with a pixel crop
PercentCrop(image, c) ==
    [unit |-> "%",
     x |-> RDiv(RMul(c.x, Int2Rat(100)), Int2Rat(image.width)),
     y |-> RDiv(RMul(c.y, Int2Rat(100)), Int2Rat(image.height)),
     width |-> RDiv(RMul(c.width, Int2Rat(100)), Int2Rat(image.width)),
     height |-> RDiv(RMul(c.height, Int2Rat(100)), Int2Rat(image.height))]

PixelCrop(x, y, w, h) == [unit |-> "px", x |-> x, y |-> y, width |-> w, height |-> h]

\* the selections a drag on the displayed image can end with (ReactCrop keeps
\* them inside the image): a click, a horizontal line, the full frame, the
\* right half
Selections(image) ==
    LET W == Int2Rat(image.width)
        H == Int2Rat(image.height)
        O == Int2Rat(0)
    IN  { PixelCrop(O, O, O, O),
          PixelCrop(O, O, W, O),
          PixelCrop(O, O, W, H),
          PixelCrop(RDiv(W, Int2Rat(2)), O, RDiv(W, Int2Rat(2)), H) }

HandleCropClick(id) ==
    /\ CropButtonsShown
    /\ id \in IdsOf(images)
    /\ LET imageToCrop == images[CHOOSE i \in DOMAIN images : images[i].id = id]
       IN  /\ croppingImage' = imageToCrop
           /\ crop' = CenteredCrop
           /\ \E size \in DisplaySizes(imageToCrop.originalSrc) :
                  imgRef' = [naturalWidth |-> imageToCrop.originalSrc.width,
                             naturalHeight |-> imageToCrop.originalSrc.height,
                             width |-> size.width, height |-> size.height]
    /\ UNCHANGED <<mode, images, prompt, isLoading, error, currentImageIndex, canvas,
                   completedCrop, tasks, nextId, arg, res>>

\* the selections the user can make now
Drags == IF imgRef = null THEN {} ELSE Selections(imgRef)

\* the end of a drag: ReactCrop's onChange and onComplete
OnComplete(c) ==
    /\ DialogShown
    /\ c \in Drags
    /\ crop' = PercentCrop(imgRef, c)
    /\ completedCrop' = c
    /\ UNCHANGED <<mode, images, prompt, isLoading, error, currentImageIndex, canvas,
                   croppingImage, imgRef, tasks, nextId, arg, res>>

\* the Cancel button
CancelCrop ==
    /\ DialogShown
    /\ croppingImage' = null
    /\ imgRef' = null
    /\ UNCHANGED <<mode, images, prompt, isLoading, error, currentImageIndex, canvas,
                   crop, completedCrop, tasks, nextId, arg, res>>

\* the data URL getCroppedImg returns: the new canvas's bitmap
CroppedImageUrl(image, pixelCrop, src) ==
    LET g == GetCroppedImg(image, pixelCrop)
    IN  [width |-> g.canvas.width, height |-> g.canvas.height, px |-> src.px]

\* A mutant of ZeroArea: only a crop with no width and no height is skipped.
ZeroAreaBoth(c) == c.width = Int2Rat(0) /\ c.height = Int2Rat(0)

\* completedCrop.width === 0 || completedCrop.height === 0
ZeroArea(c) == c.width = Int2Rat(0) \/ c.height = Int2Rat(0)

\* the Apply button, up to the await of addBorderToImage
HandleApplyCrop ==
    /\ DialogShown
    /\ IF croppingImage = null \/ completedCrop = undefined \/ imgRef = null
       THEN UNCHANGED appVars
       ELSE IF ZeroArea(completedCrop)
       THEN /\ croppingImage' = null
            /\ imgRef' = null
            /\ UNCHANGED <<mode, images, prompt, isLoading, error, currentImageIndex,
                           canvas, crop, completedCrop, tasks, nextId>>
       ELSE /\ FreeSlots # {}
            /\ LET croppedImageUrl ==
                       CroppedImageUrl(imgRef, completedCrop, croppingImage.originalSrc)
               IN  /\ croppedImageUrl.width <= MaxCropSide
                   /\ croppedImageUrl.height <= MaxCropSide
                   /\ tasks' = [tasks EXCEPT ![NewSlot] =
                          [kind |-> "crop", pc |-> "compose", id |-> croppingImage.id,
                           url |-> croppedImageUrl]]
            /\ isLoading' = TRUE
            /\ UNCHANGED <<mode, images, prompt, error, currentImageIndex, canvas,
                           croppingImage, crop, completedCrop, imgRef, nextId>>
    /\ UNCHANGED <<arg, res>>

\* A mutant of ReplaceCropped: an entry that is not found is added.
ReplaceCroppedOrAdd(prevImages, id, newlyFormattedUrl, croppedImageUrl) ==
    IF id \in IdsOf(prevImages)
    THEN [i \in DOMAIN prevImages |->
             IF prevImages[i].id = id
             THEN [prevImages[i] EXCEPT !.formattedSrc = newlyFormattedUrl,
                                        !.originalSrc = croppedImageUrl]
             ELSE prevImages[i]]
    ELSE Append(prevImages, [id |-> id, originalSrc |-> croppedImageUrl,
                             formattedSrc |-> newlyFormattedUrl])

\* A mutant of ReplaceCropped: the stored original is left as it was.
ReplaceCroppedFormattedOnly(prevImages, id, newlyFormattedUrl, croppedImageUrl) ==
    [i \in DOMAIN prevImages |->
        IF prevImages[i].id = id
        THEN [prevImages[i] EXCEPT !.formattedSrc = newlyFormattedUrl]
        ELSE prevImages[i]]

\* A mutant of ReplaceCropped: the first entry is replaced, whatever its id.
ReplaceCroppedFirst(prevImages, id, newlyFormattedUrl, croppedImageUrl) ==
    [i \in DOMAIN prevImages |->
        IF i = 1
        THEN [prevImages[i] EXCEPT !.formattedSrc = newlyFormattedUrl,
                                   !.originalSrc = croppedImageUrl]
        ELSE prevImages[i]]

\* A mutant of ReplaceCropped: the replaced entry is a new object with an id
\* of its own.
ReplaceCroppedNewId(prevImages, id, newlyFormattedUrl, croppedImageUrl) ==
    [i \in DOMAIN prevImages |->
        IF prevImages[i].id = id
        THEN [id |-> 0, formattedSrc |-> newlyFormattedUrl,
              originalSrc |-> croppedImageUrl]
        ELSE prevImages[i]]

\* prevImages.map(img => img.id === croppingImage.id ? {...} : img)
ReplaceCropped(prevImages, id, newlyFormattedUrl, croppedImageUrl) ==
    [i \in DOMAIN prevImages |->
        IF prevImages[i].id = id
        THEN [prevImages[i] EXCEPT !.formattedSrc = newlyFormattedUrl,
                                   !.originalSrc = croppedImageUrl]
        ELSE prevImages[i]]

\* the cropped image has loaded or failed to: the rest of handleApplyCrop
\* A mutant of CropLoad: the cropped bitmap is stored as the entry's original
\* before the compose has succeeded.
CropLoadStoresFirst(t) ==
    /\ tasks[t].kind = "crop"
    /\ LET task == tasks[t]
           cv == AddBorderCanvas(canvas, task.url)
       IN  IF Decodes(task.url)
           THEN /\ canvas' = cv
                /\ images' = ReplaceCropped(images, task.id, ToDataURL(cv, Drawn(task.url)), task.url)
                /\ croppingImage' = null
                /\ imgRef' = null
                /\ UNCHANGED error
           ELSE /\ error' = ImageLoadError
                /\ images' = [i \in DOMAIN images |->
                                 IF images[i].id = task.id
                                 THEN [images[i] EXCEPT !.originalSrc = task.url]
                                 ELSE images[i]]
                /\ UNCHANGED <<canvas, croppingImage, imgRef>>
    /\ isLoading' = FALSE
    /\ tasks' = [tasks EXCEPT ![t] = Idle]
    /\ UNCHANGED <<mode, prompt, currentImageIndex, crop, completedCrop, nextId, arg, res>>

CropLoad(t) ==
    /\ tasks[t].kind = "crop"
    /\ LET task == tasks[t]
           cv == AddBorderCanvas(canvas, task.url)
       IN  IF Decodes(task.url)
           THEN /\ canvas' = cv
                /\ images' = ReplaceCropped(images, task.id, ToDataURL(cv, Drawn(task.url)), task.url)
                /\ croppingImage' = null
                /\ imgRef' = null
                /\ UNCHANGED error
           ELSE /\ error' = ImageLoadError
                /\ UNCHANGED <<canvas, images, croppingImage, imgRef>>
    /\ isLoading' = FALSE
    /\ tasks' = [tasks EXCEPT ![t] = Idle]
    /\ UNCHANGED <<mode, prompt, currentImageIndex, crop, completedCrop, nextId, arg, res>>

(***************************************************************************)
(* The component.                                                          *)
(***************************************************************************)
AppInit ==
    /\ mode = "upload"
    /\ images = << >>
    /\ prompt = DefaultPrompt
    /\ isLoading = FALSE
    /\ error = null
    /\ currentImageIndex = 0
    /\ canvas = BlankCanvas
    /\ croppingImage = null
    /\ crop = undefined
    /\ completedCrop = undefined
    /\ imgRef = null
    /\ tasks = [t \in 1..MaxTasks |-> Idle]
    /\ nextId = 0

Init ==
    /\ AppInit
    /\ arg = undefined
    /\ res = undefined

Next ==
    \/ \E files \in FileLists : HandleFiles(files)
    \/ \E t \in Slots : ReadDone(t)
    \/ \E t \in Slots : \E i \in 1..MaxBatch : ImageLoad(t, i)
    \/ HandleGenerate
    \/ \E t \in Slots : GenerateResolved(t)
    \/ \E t \in Slots : GenerateRejected(t)
    \/ StartOver
    \/ \E newMode \in Modes : HandleModeChange(newMode)
    \/ \E p \in Prompts : SetPrompt(p)
    \/ \E id \in 1..MaxImages : HandleCropClick(id)
    \/ \E c \in Drags : OnComplete(c)
    \/ CancelCrop
    \/ HandleApplyCrop
    \/ \E t \in Slots : CropLoad(t)

Spec == Init /\ [][Next]_vars

(***************************************************************************)
(* Handlers that overlap.  The uploader stays on screen, and is not        *)
(* disabled, for as long as the gallery is empty, so that a second batch   *)
(* can be dropped while the first is still being read or composed.         *)
(* SpecOverlap has the uploads and generations with two handler            *)
(* invocations in flight; SpecCropOverlap has uploads of one file each     *)
(* together with the crop dialog, so that a crop is composed while an      *)
(* upload is still in flight.                                              *)
(***************************************************************************)
MaxOverlap == 2     \* handler invocations in flight at once

InitOverlap ==
    /\ mode = "upload"
    /\ images = << >>
    /\ prompt = DefaultPrompt
    /\ isLoading = FALSE
    /\ error = null
    /\ currentImageIndex = 0
    /\ canvas = BlankCanvas
    /\ croppingImage = null
    /\ crop = undefined
    /\ completedCrop = undefined
    /\ imgRef = null
    /\ tasks = [t \in 1..MaxOverlap |-> Idle]
    /\ nextId = 0
    /\ arg = undefined
    /\ res = undefined

NextOverlap ==
    \/ \E files \in FileLists : HandleFiles(files)
    \/ \E t \in Slots : ReadDone(t)
    \/ \E t \in Slots : \E i \in 1..MaxBatch : ImageLoad(t, i)
    \/ HandleGenerate
    \/ \E t \in Slots : GenerateResolved(t)
    \/ \E t \in Slots : GenerateRejected(t)
    \/ StartOver
    \/ \E newMode \in Modes : HandleModeChange(newMode)
    \/ \E p \in Prompts : SetPrompt(p)

SpecOverlap == InitOverlap /\ [][NextOverlap]_vars

\* selections of a single file
SingleFileLists == { <<f>> : f \in Files }

NextCropOverlap ==
    \/ \E files \in SingleFileLists : HandleFiles(files)
    \/ \E t \in Slots : ReadDone(t)
    \/ \E t \in Slots : \E i \in 1..MaxBatch : ImageLoad(t, i)
    \/ \E id \in 1..MaxImages : HandleCropClick(id)
    \/ \E c \in Drags : OnComplete(c)
    \/ HandleApplyCrop
    \/ \E t \in Slots : CropLoad(t)

SpecCropOverlap == InitOverlap /\ [][NextCropOverlap]_vars

(***************************************************************************)
(* The compositor on its own: every source size of SourceSizes is put      *)
(* through the three variants of the geometry.                             *)
(***************************************************************************)
MaxSide == 12       \* source widths and heights 1..MaxSide

\* sizes of real photographs, the scenario of the specification among them
ScenarioSizes == { <<1600, 900>>, <<900, 1600>>, <<1080, 1080>>, <<1920, 1080>>,
                   <<3000, 4000>>, <<1000, 1>>, <<1, 1000>> }

SourceSizes == ((1..MaxSide) \X (1..MaxSide)) \cup ScenarioSizes

InitCompose ==
    /\ AppInit
    /\ arg \in { [width |-> sz[1], height |-> sz[2]] : sz \in SourceSizes }
    /\ res = undefined

Compose ==
    /\ res = undefined
    /\ res' = [addBorderToImage |-> BorderRect(arg.width, arg.height),
               processImageDataUrl |-> ProcessRect(arg.width, arg.height),
               processAndSetImage |-> ProcessAndSetRect(arg.width, arg.height)]
    /\ UNCHANGED <<appVars, arg>>

NextCompose == Compose

SpecCompose == InitCompose /\ [][NextCompose]_vars

(***************************************************************************)
(* The crop transform on its own: images of every natural and displayed    *)
(* size up to the bounds, with every selection inside the displayed image  *)
(* in steps of half a pixel.                                               *)
(***************************************************************************)
MaxNatural == 3     \* natural widths and heights 1..MaxNatural
MaxDisplay == 3     \* displayed widths and heights 1..MaxDisplay

\* one axis: natural and displayed extent, and a span inside the displayed one
Axis ==
    UNION { { [natural |-> nd[1], display |-> nd[2],
               at |-> Rat(q[1], 2), len |-> Rat(q[2], 2)] :
                 q \in { r \in (0..(2 * nd[2])) \X (0..(2 * nd[2])) :
                            r[1] + r[2] <= 2 * nd[2] } } :
            nd \in (1..MaxNatural) \X (1..MaxDisplay) }

DisplayedImage(nw, nh, w, h) ==
    [naturalWidth |-> nw, naturalHeight |-> nh, width |-> w, height |-> h]

\* the scenario of the specification; a selection whose native extent is no
\* whole number of pixels; a full frame
CropScenarios ==
    { [image |-> DisplayedImage(400, 400, 200, 200),
       crop |-> PixelCrop(Int2Rat(10), Int2Rat(10), Int2Rat(50), Int2Rat(50))],
      [image |-> DisplayedImage(400, 400, 300, 300),
       crop |-> PixelCrop(Int2Rat(10), Int2Rat(10), Int2Rat(50), Int2Rat(50))],
      [image |-> DisplayedImage(1600, 900, 800, 450),
       crop |-> PixelCrop(Int2Rat(0), Int2Rat(0), Int2Rat(800), Int2Rat(450))] }

CropInputs ==
    { [image |-> DisplayedImage(h.natural, v.natural, h.display, v.display),
       crop |-> PixelCrop(h.at, v.at, h.len, v.len)] : h \in Axis, v \in Axis }
    \cup CropScenarios

InitCrop ==
    /\ AppInit
    /\ arg \in CropInputs
    /\ res = undefined

Crop ==
    /\ res = undefined
    /\ res' = GetCroppedImg(arg.image, arg.crop)
    /\ UNCHANGED <<appVars, arg>>

NextCrop == Crop

SpecCrop == InitCrop /\ [][NextCrop]_vars

(***************************************************************************)
(* A third specification, for the full-frame crop followed by the compose: *)
(* arg is an image of any natural size laid out at any size with the whole *)
(* displayed frame selected, res the canvas getCroppedImg makes of it and  *)
(* the rectangle addBorderToImage then draws its bitmap in.                *)
(***************************************************************************)
MaxFrame == 15
MaxFrameHeight == 2

FrameInputs ==
    { [image |-> DisplayedImage(nw, nh, w, h),
       crop |-> PixelCrop(Int2Rat(0), Int2Rat(0), Int2Rat(w), Int2Rat(h))] :
          nw \in 1..MaxFrame, w \in 1..MaxFrame,
          nh \in 1..MaxFrameHeight, h \in 1..MaxFrameHeight }

InitRoundTrip ==
    /\ AppInit
    /\ arg \in FrameInputs
    /\ res = undefined

RoundTrip ==
    /\ res = undefined
    /\ LET cropped == GetCroppedImg(arg.image, arg.crop).canvas
       IN  res' = [canvas |-> cropped,
                   rect |-> IF cropped.width > 0 /\ cropped.height > 0
                            THEN BorderRect(cropped.width, cropped.height)
                            ELSE undefined]
    /\ UNCHANGED <<appVars, arg>>

NextRoundTrip == RoundTrip

SpecRoundTrip == InitRoundTrip /\ [][NextRoundTrip]_vars

(***************************************************************************)
(* The single-image App (part_000).  It keeps one image: originalImage and *)
(* formattedImageUrl are set together and cleared together, and images     *)
(* holds the pair, or nothing when both are null.  Its handlers are        *)
(* callbacks: handleFile starts a FileReader, whose onloadend calls        *)
(* processAndSetImage, which waits for the image's onload or onerror;      *)
(* handleGenerate awaits generateImage and calls processAndSetImage.  When *)
(* the onload handler runs, the canvas of canvasRef can be there with its  *)
(* 2D context, be missing, or give no context.                             *)
(***************************************************************************)
originalImage == IF images = << >> THEN null ELSE images[1].originalSrc
formattedImageUrl == IF images = << >> THEN null ELSE images[1].formattedSrc

\* the state the single-image App does not have
unusedSingle == <<currentImageIndex, croppingImage, crop, completedCrop, imgRef,
                  nextId, arg, res>>

Surfaces == {"ready", "no canvas", "no context"}

\* <ImageUploader> is rendered
UploaderShownSingle == formattedImageUrl = null /\ mode = "upload"
\* <ImageGenerator> is rendered
GeneratorShownSingle == formattedImageUrl = null /\ mode = "generate"

\* handleFile(file) for a file that is there
HandleFile(file) ==
    /\ UploaderShownSingle
    /\ IF IsImageType(file)
       THEN /\ FreeSlots # {}
            /\ isLoading' = TRUE
            /\ error' = null
            /\ tasks' = [tasks EXCEPT ![NewSlot] =
                   [kind |-> "file", pc |-> "read", file |-> file]]
       ELSE /\ error' = Message("Invalid file type. Please upload an image (e.g., JPEG, PNG, GIF).")
            /\ UNCHANGED <<isLoading, tasks>>
    /\ UNCHANGED <<mode, images, prompt, canvas, unusedSingle>>

\* reader.onloadend with the data URL: processAndSetImage(reader.result)
ReaderLoadEnd(t) ==
    /\ tasks[t].kind = "file"
    /\ tasks[t].pc = "read"
    /\ tasks[t].file.reads
    /\ tasks' = [tasks EXCEPT ![t] =
           [kind |-> "file", pc |-> "load", url |-> DataUrl(tasks[t].file)]]
    /\ UNCHANGED <<mode, images, prompt, isLoading, error, canvas, unusedSingle>>

\* the read fails: reader.onerror, then reader.onloadend without a result
ReaderError(t) ==
    /\ tasks[t].kind = "file"
    /\ tasks[t].pc = "read"
    /\ ~tasks[t].file.reads
    /\ error' = Message("Failed to read image data.")
    /\ isLoading' = FALSE
    /\ tasks' = [tasks EXCEPT ![t] = Idle]
    /\ UNCHANGED <<mode, images, prompt, canvas, unusedSingle>>

\* image.onload of processAndSetImage
ImageOnLoad(t) ==
    /\ tasks[t] # Idle
    /\ tasks[t].pc = "load"
    /\ Decodes(tasks[t].url)
    /\ \E surface \in Surfaces :
           IF surface = "ready"
           THEN LET url == tasks[t].url
                    cv == [width |-> canvasSize, height |-> canvasSize]
                    px == [src |-> url, rect |-> ProcessAndSetRect(url.width, url.height)]
                IN  /\ canvas' = cv
                    /\ images' = << [originalSrc |-> url,
                                     formattedSrc |-> ToDataURL(cv, px)] >>
                    /\ error' = null
                    /\ isLoading' = FALSE
           ELSE /\ error' = IF surface = "no canvas"
                            THEN Message("Canvas element not found.")
                            ELSE Message("Could not get canvas context.")
                /\ UNCHANGED <<canvas, images, isLoading>>
    /\ tasks' = [tasks EXCEPT ![t] = Idle]
    /\ UNCHANGED <<mode, prompt, unusedSingle>>

\* image.onerror of processAndSetImage
ImageOnError(t) ==
    /\ tasks[t] # Idle
    /\ tasks[t].pc = "load"
    /\ ~Decodes(tasks[t].url)
    /\ error' = Message("The file could not be loaded as an image. It might be corrupted or in an unsupported format.")
    /\ isLoading' = FALSE
    /\ tasks' = [tasks EXCEPT ![t] = Idle]
    /\ UNCHANGED <<mode, images, prompt, canvas, unusedSingle>>

\* the Generate button (disabled while loading or without a prompt), up to
\* the await of generateImage
HandleGenerateSingle ==
    /\ GeneratorShownSingle
    /\ ~isLoading
    /\ prompt # ""
    /\ FreeSlots # {}
    /\ isLoading' = TRUE
    /\ error' = null
    /\ images' = << >>
    /\ tasks' = [tasks EXCEPT ![NewSlot] = [kind |-> "generate", pc |-> "gen"]]
    /\ UNCHANGED <<mode, prompt, canvas, unusedSingle>>

\* generateImage has resolved: processAndSetImage(generatedDataUrl)
GenerateResolvedSingle(t) ==
    /\ tasks[t].kind = "generate"
    /\ tasks[t].pc = "gen"
    /\ \E url \in GeneratedUrls :
           tasks' = [tasks EXCEPT ![t] = [kind |-> "generate", pc |-> "load", url |-> url]]
    /\ UNCHANGED <<mode, images, prompt, isLoading, error, canvas, unusedSingle>>

\* generateImage has rejected
GenerateRejectedSingle(t) ==
    /\ tasks[t].kind = "generate"
    /\ tasks[t].pc = "gen"
    /\ \E e \in GenerationFailures : error' = e
    /\ isLoading' = FALSE
    /\ tasks' = [tasks EXCEPT ![t] = Idle]
    /\ UNCHANGED <<mode, images, prompt, canvas, unusedSingle>>

HandleClearSingle ==
    /\ images' = << >>
    /\ error' = null
    /\ isLoading' = FALSE
    /\ prompt' = DefaultPrompt
    /\ UNCHANGED <<canvas, tasks, unusedSingle>>

\* the Start Over button, disabled without a formatted image
StartOverSingle ==
    /\ formattedImageUrl # null
    /\ HandleClearSingle
    /\ UNCHANGED mode

HandleModeChangeSingle(newMode) ==
    /\ IF mode # newMode
       THEN HandleClearSingle
       ELSE UNCHANGED <<images, error, isLoading, prompt, canvas, tasks, unusedSingle>>
    /\ mode' = newMode

SetPromptSingle(p) ==
    /\ GeneratorShownSingle
    /\ prompt' = p
    /\ UNCHANGED <<mode, images, isLoading, error, canvas, tasks, unusedSingle>>

NextSingle ==
    \/ \E file \in Files : HandleFile(file)
    \/ \E t \in Slots : ReaderLoadEnd(t)
    \/ \E t \in Slots : ReaderError(t)
    \/ \E t \in Slots : ImageOnLoad(t)
    \/ \E t \in Slots : ImageOnError(t)
    \/ HandleGenerateSingle
    \/ \E t \in Slots : GenerateResolvedSingle(t)
    \/ \E t \in Slots : GenerateRejectedSingle(t)
    \/ StartOverSingle
    \/ \E newMode \in Modes : HandleModeChangeSingle(newMode)
    \/ \E p \in Prompts : SetPromptSingle(p)

SpecSingle == Init /\ [][NextSingle]_vars

(***************************************************************************)
(* Properties of the compositor (SpecCompose).                             *)
(***************************************************************************)
Fit == RMul(Int2Rat(canvasSize), padding)
Margin == RDiv(RMul(Int2Rat(canvasSize), RSub(Int2Rat(1), padding)), Int2Rat(2))
Aspect(w, h) == RDiv(Int2Rat(w), Int2Rat(h))

AspectPreserved(rect, w, h) ==
    RMul(rect.drawWidth, Int2Rat(h)) = RMul(rect.drawHeight, Int2Rat(w))

\* C2: for every source size the draw rectangle has the source's aspect
\* ratio exactly, drawWidth * h = drawHeight * w, in the compositor of
\* part_001 (branching on width > height) and in that of App.tsx (branching
\* on the ratio).
C2_AspectRatioPreserved ==
    res # undefined =>
        /\ AspectPreserved(res.addBorderToImage, arg.width, arg.height)
        /\ AspectPreserved(res.processImageDataUrl, arg.width, arg.height)

\* a landscape source whose drawHeight is no whole number has been composed
C2_Witness ==
    /\ res # undefined
    /\ arg.width > arg.height
    /\ ~IsInt(res.addBorderToImage.drawHeight)

Centred(rect) ==
    /\ rect.x = RSub(Int2Rat(canvasSize), RAdd(rect.x, rect.drawWidth))
    /\ rect.y = RSub(Int2Rat(canvasSize), RAdd(rect.y, rect.drawHeight))

StrictlyInside(rect) ==
    /\ RLt(Int2Rat(0), rect.x)
    /\ RLt(Int2Rat(0), rect.y)
    /\ RLt(RAdd(rect.x, rect.drawWidth), Int2Rat(canvasSize))
    /\ RLt(RAdd(rect.y, rect.drawHeight), Int2Rat(canvasSize))

PaddedAndCentred(rect, w, h) ==
    /\ Centred(rect)
    /\ StrictlyInside(rect)
    /\ w >= h => rect.drawWidth = Fit /\ rect.x = Margin
    /\ h >= w => rect.drawHeight = Fit /\ rect.y = Margin
    /\ RLe(rect.drawWidth, Fit)
    /\ RLe(rect.drawHeight, Fit)

\* C3: the drawn rectangle is centred (equal margins left and right, top and
\* bottom) and strictly inside the canvas; the longer axis has extent
\* canvasSize * padding with a margin of canvasSize * (1 - padding) / 2 on
\* each side, the other axis has extent at most canvasSize * padding.
C3_CentredInsideCanvas ==
    res # undefined =>
        /\ PaddedAndCentred(res.addBorderToImage, arg.width, arg.height)
        /\ PaddedAndCentred(res.processImageDataUrl, arg.width, arg.height)

\* a portrait source has been composed: its margins differ on the two axes
C3_Witness ==
    /\ res # undefined
    /\ arg.width < arg.height
    /\ res.addBorderToImage.x # res.addBorderToImage.y

\* C4 as stated: for width >= height, drawHeight = canvasSize * padding,
\* drawWidth = drawHeight * aspect and drawWidth <= canvasSize.
C4_AsStated ==
    (res # undefined /\ arg.width >= arg.height) =>
        \A rect \in {res.addBorderToImage, res.processImageDataUrl} :
            /\ rect.drawHeight = Fit
            /\ rect.drawWidth = RMul(rect.drawHeight, Aspect(arg.width, arg.height))
            /\ RLe(rect.drawWidth, Int2Rat(canvasSize))

\* C4, amended: for all source images with width <= height, drawHeight =
\* canvasSize * padding and drawWidth = drawHeight * aspect, with
\* drawWidth <= canvasSize.  (A source wider than high is fitted by its
\* width instead.)
C4_FitsHeightUnlessWider ==
    (res # undefined /\ arg.width <= arg.height) =>
        \A rect \in {res.addBorderToImage, res.processImageDataUrl} :
            /\ rect.drawHeight = Fit
            /\ rect.drawWidth = RMul(rect.drawHeight, Aspect(arg.width, arg.height))
            /\ RLe(rect.drawWidth, Int2Rat(canvasSize))

\* a source higher than wide has been composed and is narrower than the fit
C4_Witness ==
    /\ res # undefined
    /\ arg.width < arg.height
    /\ res.addBorderToImage.drawHeight = Fit
    /\ RLt(res.addBorderToImage.drawWidth, Fit)

ScenarioRect == [x |-> Int2Rat(54), y |-> Rat(266625, 1000),
                 drawWidth |-> Int2Rat(972), drawHeight |-> Rat(54675, 100)]

\* C5: a 1600 x 900 source is drawn with drawWidth = 972, drawHeight = 546.75,
\* x = 54 and y = 266.625, by the compositor of part_001 and by that of the
\* single-image variant.
C5_Scenario1600x900 ==
    (res # undefined /\ arg = [width |-> 1600, height |-> 900]) =>
        /\ res.addBorderToImage = ScenarioRect
        /\ res.processAndSetImage = ScenarioRect

\* the 1600 x 900 source has been composed
C5_Witness ==
    /\ res # undefined
    /\ arg = [width |-> 1600, height |-> 900]

(***************************************************************************)
(* Properties of the crop transform (SpecCrop).                            *)
(***************************************************************************)
\* v is the displayed coordinate c taken to native pixels: v = c * natural / displayed
Scaled(v, c, natural, displayed) ==
    RMul(v, Int2Rat(displayed)) = RMul(c, Int2Rat(natural))

\* n = floor(v)
IsFloorOf(n, v) == RLe(Int2Rat(n), v) /\ RLt(v, Int2Rat(n + 1))

CropScenario ==
    [image |-> DisplayedImage(400, 400, 200, 200),
     crop |-> PixelCrop(Int2Rat(10), Int2Rat(10), Int2Rat(50), Int2Rat(50))]

C7_AsStated ==
    res # undefined =>
        /\ res.sWidth = res.dWidth
        /\ res.sHeight = res.dHeight

\* C21 as stated: cropping the whole displayed frame gives a bitmap of
\* exactly the natural width and height, and composing it draws in the same
\* rectangle as composing the uncropped source.
C21_AsStated ==
    res # undefined =>
        /\ res.canvas = [width |-> arg.image.naturalWidth,
                         height |-> arg.image.naturalHeight]
        /\ res.rect = BorderRect(arg.image.naturalWidth, arg.image.naturalHeight)

(***************************************************************************)
(* Properties of the gallery and the crop dialog (Spec).                   *)
(***************************************************************************)
\* C1: after any sequence of uploads, generations and crops, every formatted
\* output in the gallery is a bitmap of canvasSize x canvasSize pixels,
\* whatever the source's size and whatever size the shared canvas had before.
C1_FormattedIsCanvasSize ==
    \A i \in DOMAIN images :
        /\ images[i].formattedSrc.width = canvasSize
        /\ images[i].formattedSrc.height = canvasSize

\* a gallery of two entries of different source sizes, one of them the
\* right half cropped out of wide.png
C1_Witness ==
    /\ Len(images) = 2
    /\ \E i \in DOMAIN images :
           /\ images[i].originalSrc.px = "wide.png"
           /\ images[i].originalSrc.width = 1
    /\ \E i, j \in DOMAIN images :
           <<images[i].originalSrc.width, images[i].originalSrc.height>> #
           <<images[j].originalSrc.width, images[j].originalSrc.height>>

\* the Apply button can be pressed on a completed region without area
ZeroAreaApply ==
    /\ croppingImage # null
    /\ imgRef # null
    /\ completedCrop # undefined
    /\ completedCrop.width = Int2Rat(0) \/ completedCrop.height = Int2Rat(0)

\* C8: applying a crop whose completed region has width 0 or height 0 runs
\* no crop transform and no compose (no task is started, the canvas is not
\* touched) and leaves every entry of the gallery as it was; the dialog is
\* closed, so that a second press finds nothing to apply.
C8_ZeroAreaApplyIsNoOp ==
    [][(ZeroAreaApply /\ HandleApplyCrop) =>
           /\ images' = images
           /\ tasks' = tasks
           /\ canvas' = canvas
           /\ isLoading' = isLoading
           /\ croppingImage' = null]_vars

\* a line selection (some width, no height) was applied: the dialog is
\* closed on it, nothing is loading and the gallery holds the uploads as
\* they were
C8_Witness ==
    /\ croppingImage = null
    /\ completedCrop # undefined
    /\ completedCrop.width # Int2Rat(0)
    /\ completedCrop.height = Int2Rat(0)
    /\ ~isLoading
    /\ Len(images) > 0
    /\ \A i \in DOMAIN images : images[i].originalSrc \in {DataUrl(f) : f \in Files}

\* the Apply button can be pressed on a completed region with area that
\* exceeds the displayed image
OutOfBoundsApply ==
    /\ croppingImage # null
    /\ imgRef # null
    /\ completedCrop # undefined
    /\ completedCrop.width # Int2Rat(0)
    /\ completedCrop.height # Int2Rat(0)
    /\ ~InBounds(imgRef, completedCrop)

\* C9 as stated: given a region that exceeds the displayed bounds, the crop
\* fails with an error instead of producing a bitmap: no cropped bitmap is
\* handed on to be composed, an error is reported and the gallery is left
\* as it was.
C9_AsStated ==
    [][(OutOfBoundsApply /\ HandleApplyCrop) =>
           /\ tasks' = tasks
           /\ error' # null
           /\ images' = images]_vars

\* C10 as stated: applying a crop to an entry id that is not in the gallery
\* reports an error and leaves the gallery unchanged.
C10_AsStated ==
    [][\A t \in Slots :
           (/\ tasks[t].kind = "crop"
            /\ tasks[t].id \notin IdsOf(images)
            /\ CropLoad(t)) =>
               /\ error' # null
               /\ images' = images]_vars

\* the entry is the composite of the original it stores
FormattedFromOriginal(entry) == entry.formattedSrc.px.src = entry.originalSrc

\* the uploads and generations as they came in, before any crop
Uncropped == {DataUrl(f) : f \in Files} \cup GeneratedUrls

\* C11: a crop replaces an entry's formatted output and its stored original
\* in one update: after every step each entry's formatted output is the
\* composite of the original stored with it, never of an earlier or later
\* one; and a crop dialog that opens shows the entry as the gallery holds it
\* then, so that a second crop works on the already-cropped original.
C11_CropReplacesBothAtOnce ==
    [][/\ \A i \in DOMAIN images' : FormattedFromOriginal(images'[i])
       /\ \A id \in IdsOf(images) : HandleCropClick(id) =>
              /\ \E i \in DOMAIN images : images[i].id = id /\ croppingImage' = images[i]
              /\ imgRef'.naturalWidth = croppingImage'.originalSrc.width
              /\ imgRef'.naturalHeight = croppingImage'.originalSrc.height]_vars

\* the right half was cropped out of wide.png and the dialog is open again
\* on that entry, showing the 1 x 1 crop
C11_Witness ==
    /\ croppingImage # null
    /\ croppingImage.originalSrc = [width |-> 1, height |-> 1, px |-> "wide.png"]
    /\ imgRef # null
    /\ imgRef.naturalWidth = 1
    /\ \E i \in DOMAIN images : images[i] = croppingImage

\* C12: a crop changes only the entry it was applied to: the gallery keeps
\* its length, its order and every id, and every entry with another id keeps
\* its originalSrc and formattedSrc.
C12_CropChangesOneEntry ==
    [][\A t \in Slots : CropLoad(t) =>
           /\ Len(images') = Len(images)
           /\ \A i \in DOMAIN images :
                  /\ images'[i].id = images[i].id
                  /\ images[i].id # tasks[t].id => images'[i] = images[i]]_vars

\* of two uploads the second has been cropped and the first is as uploaded
C12_Witness ==
    /\ Len(images) = 2
    /\ images[1].originalSrc \in Uncropped
    /\ images[2].originalSrc \notin Uncropped
    /\ FormattedFromOriginal(images[2])

(***************************************************************************)
(* Properties of overlapping handlers (SpecOverlap, SpecCropOverlap).      *)
(***************************************************************************)
UniqueIds(imgs) == \A i, j \in DOMAIN imgs : imgs[i].id = imgs[j].id => i = j

BatchFails(task) ==
    /\ task.kind = "upload"
    /\ IF task.pc = "read"
       THEN \E k \in DOMAIN task.files : ~task.files[k].reads
       ELSE \/ task.rejected
            \/ \E k \in DOMAIN task.urls : task.urls[k].width = 0 \/ task.urls[k].height = 0

\* the step is the one in which the handler of the batch catches the failure
BatchRejects(task, after) ==
    IF task.pc = "read" THEN TRUE
    ELSE /\ ~task.rejected
         /\ (after = Idle \/ after.rejected)

\* C15: a batch with a file that cannot be read or an image that cannot be
\* decoded adds nothing to the gallery, in none of its steps, also not the
\* images composed before the failure; when the failure is caught an error
\* message is set and loading ends.
C15_BatchAllOrNothing ==
    [][\A t \in Slots :
           (BatchFails(tasks[t]) /\ tasks'[t] # tasks[t]) =>
               /\ images' = images
               /\ BatchRejects(tasks[t], tasks'[t]) =>
                      (error' # null /\ isLoading' = FALSE)]_vars

\* a batch has been rejected for an image that did not decode while another
\* of its images is still loading: the error is set and the gallery is empty
C15_Witness ==
    /\ images = << >>
    /\ error = ImageLoadError
    /\ ~isLoading
    /\ \E t \in Slots :
           /\ tasks[t].kind = "upload"
           /\ tasks[t].pc = "compose"
           /\ tasks[t].rejected
           /\ Pending(tasks[t].out) # {}

\* selections of three files, the second of which is no image
SecondIsNoImage ==
    { <<a, b, c>> : a \in { f \in Files : f.type[1] = "image" },
                    b \in { f \in Files : f.type[1] # "image" },
                    c \in { f \in Files : f.type[1] = "image" } }

\* selections without an image
NoImages ==
    UNION { [1..n -> { f \in Files : f.type[1] # "image" }] : n \in 1..MaxBatch }

Cleared ==
    /\ images = << >>
    /\ error = null
    /\ isLoading = FALSE
    /\ currentImageIndex = 0
    /\ prompt = DefaultPrompt

\* C17: clear empties the gallery and resets error, loading, index and
\* prompt, and a clear of a cleared state changes nothing, so that two
\* clears in a row leave what one leaves.
C17_ClearIsIdempotent ==
    [][HandleClear =>
           /\ Cleared'
           /\ Cleared => UNCHANGED <<images, prompt, isLoading, error, currentImageIndex,
                                     canvas, croppingImage, crop, completedCrop,
                                     imgRef, tasks, nextId>>]_vars

\* a cleared state in generate mode, after images had been composed and the
\* prompt had been edited or the gallery filled
C17_Witness ==
    /\ Cleared
    /\ nextId > 0
    /\ mode = "generate"

\* C18 as stated: after clear no entry is open for cropping and no crop
\* region, in progress or completed, is kept.
C18_AsStated ==
    [][HandleClear =>
           /\ croppingImage' = null
           /\ crop' = undefined
           /\ completedCrop' = undefined]_vars

\* C20 as stated: right after an upload, a generation or an apply-crop has
\* started its processing, the error is null.
C20_AsStated ==
    [][(\/ \E files \in FileLists : HandleFiles(files) /\ tasks' # tasks
        \/ HandleGenerate
        \/ HandleApplyCrop /\ tasks' # tasks) => error' = null]_vars

\* the generate handler of slot t sees its request fail in this step: it
\* was waiting for generateImage and does not go on with a generated image
GenerationFails(t) ==
    /\ tasks[t].kind = "generate"
    /\ tasks[t].pc = "gen"
    /\ tasks'[t] # tasks[t]
    /\ \A url \in GeneratedUrls :
           tasks'[t] # ComposeTask("generate", <<url>>, tasks[t].idx)

CropFails(t) ==
    /\ tasks[t].kind = "crop"
    /\ tasks'[t] # tasks[t]
    /\ ~Decodes(tasks[t].url)

C24_AsStated ==
    [][\A t \in Slots :
           (tasks[t] # Idle /\ tasks'[t] = Idle) => isLoading' = FALSE]_vars

\* the entries of imgs that an upload put there
FromUploads(imgs) == \A i \in DOMAIN imgs : imgs[i].originalSrc \notin GeneratedUrls

\* C25 as stated: an upload that ends while the gallery holds the entries of
\* another upload does not mix its entries with them (the gallery is that of
\* one batch: the new entries replace the old ones, or are left out), and a
\* step of an upload handler leaves loading set while another upload is
\* still in flight.
C25_AsStated ==
    [][\A t \in Slots :
           (tasks[t].kind = "upload" /\ tasks'[t] # tasks[t]) =>
               /\ (images # << >> /\ FromUploads(images) /\ images' # images) =>
                      IdsOf(images') \cap IdsOf(images) = {}
               /\ (isLoading /\ \E u \in Slots \ {t} : tasks'[u].kind = "upload") =>
                      isLoading' = TRUE]_vars

\* the handler of slot t was started before the last clear: it is an upload
\* and the App is in generate mode, or a generation and the App is in upload
\* mode (a handler starts in its own mode, and switching mode clears)
StartedBeforeClear(t) ==
    \/ tasks[t].kind = "upload" /\ mode = "generate"
    \/ tasks[t].kind = "generate" /\ mode = "upload"

\* C26 as stated: no step of an upload or a generation that was started
\* before a clear adds its entries to the gallery after the clear.
C26_AsStated ==
    [][\A t \in Slots :
           (StartedBeforeClear(t) /\ tasks'[t] # tasks[t]) => images' = images]_vars

\* C27 as stated: opening the crop dialog discards the completed region of
\* an earlier session, and an Apply with a region that cannot have been
\* selected on the image now displayed starts no crop.
C27_AsStated ==
    [][/\ (\E id \in 1..MaxImages : HandleCropClick(id)) => completedCrop' = undefined
       /\ (/\ HandleApplyCrop
           /\ imgRef # null
           /\ completedCrop # undefined
           /\ completedCrop \notin Drags) => tasks' = tasks]_vars

\* C28 as stated: a region with width # 0 and height # 0 is cropped to a
\* bitmap at least one pixel wide and one pixel high.
C28_AsStated ==
    (res # undefined /\ ~ZeroArea(arg.crop)) =>
        /\ res.canvas.width >= 1
        /\ res.canvas.height >= 1

====
